---- MODULE Spec2Model ----
(***************************************************************************)
(* Real-time room messaging of SeaGro: the client chat facade              *)
(* (src/src/services/chat.js, class ChatService), the client connection    *)
(* controller (src/unnamed/part_005, class SocketService), the error       *)
(* classifier (src/src/utils/errorHandler.js) and the paginated message    *)
(* read of the message store (src/server/models/Message.js).               *)
(***************************************************************************)
EXTENDS Integers, Sequences, FiniteSets, TLC

(***************************************************************************)
(* Program constants                                                       *)
(***************************************************************************)
CacheCap == 100              \* chat.js:89  "Keep only last 100 messages"
DefaultLimit == 50           \* chat.js:164 getMessages(roomId, page = 1, limit = 50)
DebounceWaitMs == 3000       \* chat.js:16  debounce(..., 3000)
maxReconnectAttempts == 5
MinMaxMembers == 2               \* Room.js: settings.maxMembers, min: 2    \* part_005:12

(***************************************************************************)
(* Bounds of the model                                                     *)
(***************************************************************************)
HistoryLen == 101            \* messages stored for room r1 before the client starts
MaxFetches == 2              \* getMessages calls per run
MaxPending == 1              \* getMessages calls awaiting their response at a time
MaxInFlight == 1             \* events on their way to the client at a time
MaxServerOps == 2            \* messages created/edited/deleted by other users per run
EditWindow == 1              \* other users edit or delete the newest EditWindow messages
MaxSockets == 2              \* transports the controller may open per run
MaxConnects == 2             \* times a transport gets connected
MaxConnectErrors == 1        \* failed connection attempts of a transport in a row
MaxJoins == 1                \* joinRoom calls while the user types
MaxInits == 2                \* facade initialize calls per run
MaxCalls == 2                \* joinRoom/leaveRoom/sendMessage calls per run
MaxTyping == 2               \* startTyping calls per run
TickMs == 1000               \* granularity of the clock
MaxListeners == 1            \* listeners registered per event with SocketService.on
MaxPublishes == 2            \* messages the socket server broadcasts per run
MaxCleanups == 2             \* facade cleanup calls per run
MaxEmits == 2                \* direct SocketService.emit calls
MaxTimeMs == 4000            \* the clock stops here

Rooms == {"r1", "r2"}
NoRoom == "none"             \* null / undefined room
Tokens == {"t1", "t2"}
NoToken == "none"            \* null / undefined / empty credential
Limits == {DefaultLimit}                    \* the page size callers ask for
WideLimits == {DefaultLimit, HistoryLen}    \* or one that asks for the whole history
Pages == {1, 2}

Min(a, b) == IF a <= b THEN a ELSE b

(***************************************************************************)
(* Error taxonomy (errorHandler.js ErrorTypes)                             *)
(***************************************************************************)
ErrorTypes == [NETWORK |-> "NETWORK_ERROR", VALIDATION |-> "VALIDATION_ERROR",
               AUTHENTICATION |-> "AUTHENTICATION_ERROR",
               AUTHORIZATION |-> "AUTHORIZATION_ERROR",
               RATE_LIMIT |-> "RATE_LIMIT_ERROR", SERVER |-> "SERVER_ERROR",
               UNKNOWN |-> "UNKNOWN_ERROR"]

\* An error value as classifyError inspects it.
\*   app      : error instanceof AppError, with its type
\*   status   : error.response.status, 0 when there is no error.response
\*   request  : error.request is set
\*   waitMsg  : error.message contains both 'wait' and 'seconds'
AppError(type) == [app |-> TRUE, type |-> type, status |-> 0, request |-> FALSE, waitMsg |-> FALSE]
PlainError == [app |-> FALSE, type |-> "", status |-> 0, request |-> FALSE, waitMsg |-> FALSE]

\* classifyError: the type of the AppError it returns
classifyError(error, onLine) ==
    IF error.app THEN error.type
    ELSE IF ~onLine THEN ErrorTypes.NETWORK
    ELSE IF error.status # 0
         THEN CASE error.status = 400 -> ErrorTypes.VALIDATION
                [] error.status = 401 -> ErrorTypes.AUTHENTICATION
                [] error.status = 403 -> ErrorTypes.AUTHORIZATION
                [] error.status = 429 -> ErrorTypes.RATE_LIMIT
                [] error.status \in {500, 502, 503, 504} -> ErrorTypes.SERVER
                [] OTHER -> ErrorTypes.UNKNOWN
    ELSE IF error.request THEN ErrorTypes.NETWORK
    ELSE IF error.waitMsg THEN ErrorTypes.RATE_LIMIT
    ELSE ErrorTypes.UNKNOWN

\* handleError returns classifyError's AppError (toast and log are not state)
handleError(error, onLine) == classifyError(error, onLine)

(***************************************************************************)
(* State                                                                   *)
(***************************************************************************)
VARIABLES
    \* ChatService fields
    currentRoom,        \* this.currentRoom: a room or NoRoom
    typingUsers,        \* this.typingUsers: Set
    messageCache,       \* this.messageCache: Map roomId -> array of messages
    isInitialized,      \* this.isInitialized
    debounce,           \* this.debouncedStopTyping: pending timer and time of last call
    \* SocketService fields
    socket,             \* this.socket: 0 (null) or the id of a transport
    token,              \* this.token
    isConnecting,       \* this.isConnecting
    reconnectAttempts,  \* this.reconnectAttempts
    connectionPromise,  \* this.connectionPromise: 0 (null) or the id of a promise
    \* transports opened with io(...), the promises of initialize, events in flight
    sockets,            \* id -> [status, auth, listeners, attempts]
    promises,           \* id -> "none" | "pending" | "resolved" | "rejected"
    inbound,            \* server -> client events not yet dispatched, in order
    \* message store
    serverMsgs,         \* room -> messages in creation order
    serverOps,          \* number of store mutations by other users so far
    \* outstanding asynchronous calls of the facade
    fetches,            \* getMessages calls awaiting their response
    lastFetch,          \* the getMessages call that completed last and what it returned
    calls,              \* joinRoom / leaveRoom / sendMessage calls
    inits,              \* ChatService.initialize calls
    lastInit,           \* the last SocketService.initialize call and what it returned
    \* environment
    emitted,            \* events handed to the transport's socket.emit, per event name
    windowEvents,       \* CustomEvents dispatched on window, per event name
    typing,             \* startTyping calls and stop-typing emissions of the current burst
    now,                \* clock, ms
    onLine,             \* navigator.onLine
    \* history of handleNewMessage invocations per room since the last other cache operation
    base,               \* the cache entries at that operation
    arrived,            \* the messages handed to handleNewMessage since
    handled,            \* number of handleNewMessage invocations so far
    \* controller and facade: what the user and the callers observe
    toasts,             \* notifications shown so far, and the episodes they are about
    build,              \* what the installed transport library does
    lastEmit,           \* the last direct SocketService.emit call and its outcome
    eventListeners,     \* this.eventListeners: event name -> listeners, each the socket it is on
    cleanups,           \* ChatService.cleanup calls so far
    \* realtime server
    sessions,           \* connection -> outcome of the handshake
    ioRooms,            \* socket.io room -> connections that receive its events
    roomDocs,           \* Room documents: room id -> members and settings
    lastAdd,            \* the last Room.addMember call and its outcome
    joinReqs,           \* connection -> its join request between read and save
    outbox,             \* connection -> the events the server sent to it, in order
    published,          \* the messages the server broadcast, in order
    \* client: typing peers and the signed-in user
    typingSince,        \* user -> time of its last user-typing event
    authUser            \* AuthProvider's user state

facadeVars == <<currentRoom, typingUsers, messageCache, isInitialized, debounce>>
ctrlVars == <<socket, token, isConnecting, reconnectAttempts, connectionPromise>>
netVars == <<sockets, promises, inbound>>
storeVars == <<serverMsgs, serverOps>>
callVars == <<fetches, lastFetch, calls, inits, lastInit>>
envVars == <<emitted, windowEvents, typing, now, onLine>>
histVars == <<base, arrived, handled>>
auxVars == <<toasts, build, lastEmit, eventListeners, cleanups>>
serverVars == <<sessions, ioRooms, roomDocs, lastAdd>>
lateVars == <<joinReqs, outbox, published, typingSince, authUser>>
vars == <<facadeVars, ctrlVars, netVars, storeVars, callVars, envVars, histVars, auxVars,
          serverVars, lateVars>>

EventNames == {"auth", "join-room", "leave-room", "send-message", "typing", "stop-typing"}
WindowEventNames == {"chat:new-message", "chat:message-updated", "chat:message-deleted"}

\* a transport: listeners counts the handler sets the facade attached with socket.on,
\* tracked the listeners attached through SocketService.on, attempts the reconnection
\* attempts made since the connection was lost or the first try failed
NoSocket == [status |-> "none", auth |-> NoToken, listeners |-> 0, tracked |-> 0,
             attempts |-> 0, dropped |-> FALSE]
\* the events SocketService.on is called with
RegistryEvents == {"new-message", "user-typing"}
NoToasts == [restored |-> 0, reconnecting |-> 0, failed |-> 0, episodes |-> 0, exhausted |-> 0]
\* socket.io-client 3 and later emit reconnect, reconnect_attempt and reconnect_failed
\* on the Manager only; earlier releases also on the Socket the handlers are attached to
ModernBuild == [reconnectOnSocket |-> FALSE]
Builds == {[reconnectOnSocket |-> b] : b \in BOOLEAN}
NoEmit == [n |-> 0, connected |-> FALSE, callback |-> FALSE, transportThrew |-> FALSE,
           returned |-> FALSE,
           forwarded |-> 0, withCallback |-> FALSE, callbackCalls |-> 0,
           callbackError |-> "", thrown |-> FALSE]
\* realtime server: connections, users, rooms
Conns == {"c1", "c2"}
Users == {"u1", "u2", "u3", "u4"}
NoUser == "none"
DeletedUser == "u5"          \* an id for which a token was issued, without User document
\* the User documents: u4 has been deactivated
Accounts == [u \in Users |-> [isActive |-> u # "u4"]]
\* socket.handshake.auth.token: absent, not a token, expired, or signed for an id
NoCredential == [kind |-> "none", id |-> NoUser]
Credentials ==
    {NoCredential, [kind |-> "garbage", id |-> NoUser], [kind |-> "expired", id |-> "u1"]}
        \cup {[kind |-> "valid", id |-> u] : u \in Users \cup {DeletedUser}}
NoError == [kind |-> "", detail |-> ""]
NoSession == [status |-> "none", user |-> NoUser, error |-> NoError,
              credential |-> NoCredential, dbDown |-> FALSE]
NoAdd == [room |-> NoRoom, user |-> NoUser, outcome |-> "", before |-> << >>]
\* a join request that is not under way
NoJoin == [phase |-> "idle", room |-> NoRoom, user |-> NoUser, members |-> << >>,
           pushed |-> FALSE]
\* the Room documents at the start: r1 has a free place, r2 is full
InitialRooms ==
    [r \in Rooms |-> [members |-> IF r = "r1" THEN <<"u1">> ELSE <<"u1", "u2">>,
                      maxMembers |-> MinMaxMembers]]
\* room ids a client may name: the rooms that exist and one that does not
UnknownRoom == "r9"
ServerRoomIds == Rooms \cup {UnknownRoom}
\* a getMessages call: live lists the new-message events that the handler was
\* given for the room of the call while the call awaited its response
IdleFetch == [status |-> "idle", room |-> NoRoom, page |-> 0, limit |-> 0, data |-> <<>>,
              live |-> << >>]
IdleCall == [status |-> "idle", op |-> "", arg |-> NoRoom, room |-> NoRoom,
             sock |-> 0, error |-> "", emits |-> 0, lost |-> FALSE]
NoBurst == [calls |-> 0, typingEmits |-> 0, stops |-> 0, stopAt |-> 0, lastCallAt |-> 0,
            room |-> NoRoom, clean |-> TRUE, armedFor |-> NoRoom, stopRoom |-> NoRoom]
IdleInit == [status |-> "idle", promise |-> 0, error |-> ""]

\* Message.js: a stored message; the client sees id, room and edited
StoredMsg(i, r) == [id |-> i, room |-> r, edited |-> FALSE, deleted |-> FALSE]
ClientMsg(m) == [id |-> m.id, room |-> m.room, edited |-> m.edited]

\* the state after construction, whatever the transport library
Constructed ==
    /\ currentRoom = NoRoom
    /\ typingUsers = {}
    /\ messageCache = << >>
    /\ isInitialized = FALSE
    /\ debounce = [armed |-> FALSE, lastCallAt |-> 0]
    /\ socket = 0
    /\ token = NoToken
    /\ isConnecting = FALSE
    /\ reconnectAttempts = 0
    /\ connectionPromise = 0
    /\ sockets = [s \in 1..MaxSockets |-> NoSocket]
    /\ promises = [p \in 1..MaxSockets |-> "none"]
    /\ inbound = << >>
    /\ serverMsgs = [r \in Rooms |->
                       IF r = "r1" THEN [i \in 1..HistoryLen |-> StoredMsg(i, r)] ELSE << >>]
    /\ serverOps = 0
    /\ fetches = [f \in 1..MaxFetches |-> IdleFetch]
    /\ lastFetch = [n |-> 0, slot |-> 0, status |-> "", page |-> 0, result |-> << >>,
                    error |-> ""]
    /\ calls = [c \in 1..MaxCalls |-> IdleCall]
    /\ inits = [c \in 1..MaxInits |-> IdleInit]
    /\ lastInit = [n |-> 0, token |-> NoToken, kind |-> "", promise |-> 0, socket |-> 0]
    /\ emitted = [e \in EventNames |-> 0]
    /\ windowEvents = [e \in WindowEventNames |-> 0]
    /\ typing = NoBurst
    /\ handled = 0
    /\ now = 0
    /\ onLine = TRUE
    /\ base = << >>
    /\ arrived = [r \in Rooms |-> << >>]
    /\ toasts = NoToasts
    /\ lastEmit = NoEmit
    /\ eventListeners = [e \in RegistryEvents |-> << >>]
    /\ cleanups = [n |-> 0, typedSince |-> FALSE]
    /\ sessions = [c \in Conns |-> NoSession]
    /\ ioRooms = [r \in ServerRoomIds |-> {}]
    /\ roomDocs = InitialRooms
    /\ lastAdd = NoAdd
    /\ joinReqs = [c \in Conns |-> NoJoin]
    /\ outbox = [c \in Conns |-> << >>]
    /\ published = << >>
    /\ typingSince = [u \in Users |-> 0]
    /\ authUser = NoUser

\* the import of io by name (part_005 line 1) needs socket.io-client 3 or later
Init == Constructed /\ build = ModernBuild

(***************************************************************************)
(* Client Connection Controller: SocketService (src/unnamed/part_005)      *)
(***************************************************************************)
\* socket.connected
Connected(s) == s # 0 /\ sockets[s].status = "connected"
\* a transport that is connected or still trying to connect
Live(s) == sockets[s].status \in {"opening", "connected", "reconnecting"}
LiveSockets == {s \in 1..MaxSockets : Live(s)}
FreshSockets == {s \in 1..MaxSockets : sockets[s].status = "none"}

\* mutant of TearDown: the existing socket is left as it is
TearDownSkipped(socks, s) == socks

\* initialize, lines 39-41: if (this.socket) this.socket.disconnect(); what a
\* closed transport held no longer matters
TearDown(socks, s) ==
    IF s = 0 THEN socks ELSE [socks EXCEPT ![s] = [NoSocket EXCEPT !.status = "closed"]]

\* mutant of InFlight: the in-flight attempt is never recognised
InFlightNever == FALSE

\* initialize, line 29: this.isConnecting && this.connectionPromise
InFlight == isConnecting /\ connectionPromise # 0

\* acknowledgement callbacks of a transport that went down are never invoked
LoseAcks(cs, s) ==
    [c \in DOMAIN cs |->
        IF cs[c].status = "pending" /\ cs[c].sock = s THEN [cs[c] EXCEPT !.lost = TRUE]
        ELSE cs[c]]

\* initialize calls made so far, of the controller and of the facade
InitCalls == lastInit.n + Cardinality({c \in 1..MaxInits : inits[c].status = "returned"})

\* SocketService.initialize(token): the synchronous body of the call.
\* lastInit' records what the call returned.
SocketInitialize(tok) ==
    IF tok = NoToken
    THEN /\ lastInit' = [n |-> lastInit.n + 1, token |-> tok, kind |-> "throw",
                         promise |-> 0, socket |-> 0]
         /\ UNCHANGED <<ctrlVars, sockets, promises, inbound, calls>>
    ELSE IF Connected(socket) /\ token = tok
    THEN /\ lastInit' = [n |-> lastInit.n + 1, token |-> tok, kind |-> "socket",
                         promise |-> 0, socket |-> socket]
         /\ UNCHANGED <<ctrlVars, sockets, promises, inbound, calls>>
    ELSE IF InFlight
    THEN /\ lastInit' = [n |-> lastInit.n + 1, token |-> tok, kind |-> "inflight",
                         promise |-> connectionPromise, socket |-> 0]
         /\ UNCHANGED <<ctrlVars, sockets, promises, inbound, calls>>
    ELSE /\ FreshSockets # {}
         /\ LET s == CHOOSE x \in FreshSockets : \A y \in FreshSockets : x <= y
            IN /\ token' = tok
               /\ isConnecting' = TRUE
               /\ sockets' = [TearDown(sockets, socket) EXCEPT
                                 ![s] = [NoSocket EXCEPT !.status = "opening", !.auth = tok]]
               /\ socket' = s
               /\ connectionPromise' = s
               /\ promises' = [promises EXCEPT ![s] = "pending"]
               /\ inbound' = IF socket = 0 THEN inbound ELSE << >>
               /\ calls' = IF socket = 0 THEN calls ELSE LoseAcks(calls, socket)
               /\ lastInit' = [n |-> lastInit.n + 1, token |-> tok, kind |-> "new",
                               promise |-> s, socket |-> 0]
         /\ UNCHANGED reconnectAttempts

\* a direct call of the controller (initializeSocket)
CtrlInitialize(tok) ==
    /\ InitCalls < MaxInits
    /\ SocketInitialize(tok)
    /\ UNCHANGED <<lateVars, auxVars, serverVars, facadeVars, storeVars, fetches, lastFetch, inits,
                   envVars, histVars>>

\* 'connect' handler, line 65: if (this.reconnectAttempts > 0), evaluated after
\* line 59 has set the counter to 0
RestoredShown(attemptsBefore, attemptsNow) == attemptsNow > 0

\* 'reconnect_attempt' handler, lines 99-106, for attempt number n; it runs
\* when the transport emits the event on the socket
OnReconnectAttempt(t, n) ==
    IF build.reconnectOnSocket /\ n = 1 THEN [t EXCEPT !.reconnecting = @ + 1] ELSE t

\* the transport gets connected, at the first try or at a reconnection attempt:
\* 'connect' handler, lines 56-70, and after a reconnection the 'reconnect_attempt'
\* and 'reconnect' handlers, lines 93-106
TransportConnect(s) ==
    /\ emitted["auth"] < MaxConnects
    /\ sockets[s].status \in {"opening", "reconnecting"}
    /\ sockets' = [sockets EXCEPT ![s].status = "connected", ![s].attempts = 0,
                                  ![s].dropped = FALSE]
    /\ isConnecting' = FALSE
    /\ reconnectAttempts' = 0
    /\ emitted' = [emitted EXCEPT !["auth"] = @ + 1]
    /\ promises' = [promises EXCEPT ![s] = IF @ = "pending" THEN "resolved" ELSE @]
    /\ LET again == sockets[s].status = "reconnecting"
           n == sockets[s].attempts + 1
           counter == IF again /\ build.reconnectOnSocket THEN n ELSE reconnectAttempts
           t1 == IF again THEN OnReconnectAttempt(toasts, n) ELSE toasts
           byReconnect == IF again /\ build.reconnectOnSocket THEN 1 ELSE 0
           byConnect == IF RestoredShown(counter, 0) THEN 1 ELSE 0
       IN toasts' = [t1 EXCEPT !.restored = @ + byReconnect + byConnect,
                               !.episodes = @ + IF sockets[s].dropped THEN 1 ELSE 0]
    /\ UNCHANGED <<lateVars, build, lastEmit, eventListeners, cleanups, serverVars, facadeVars, socket,
                   token, connectionPromise, inbound, storeVars, callVars, windowEvents,
                   typing, now, onLine, histVars>>

\* 'connect_error' handler, lines 76-81: what the pending initialize is rejected with
ConnectErrorReason == AppError(ErrorTypes.NETWORK)

\* mutant of ConnectingAfterError: the flag is left as it is
ConnectingAfterErrorKept == isConnecting

\* 'connect_error' handler, line 74: this.isConnecting = false
ConnectingAfterError == FALSE

\* a connection try fails: 'connect_error' handler, lines 72-82. The transport
\* retries by itself (line 47) up to reconnectionAttempts times (line 48); each
\* retry runs the 'reconnect_attempt' handler and the last one that fails the
\* 'reconnect_failed' handler (lines 112-115), when the transport emits these
\* events on the socket
TransportConnectError(s) ==
    /\ sockets[s].status \in {"opening", "reconnecting"}
    /\ LET again == sockets[s].status = "reconnecting"
           n == sockets[s].attempts + 1
           last == again /\ n >= maxReconnectAttempts
           t1 == IF again THEN OnReconnectAttempt(toasts, n) ELSE toasts
       IN /\ sockets' = [sockets EXCEPT
                            ![s].attempts = IF again THEN n ELSE 0,
                            ![s].status = IF last THEN "failed" ELSE "reconnecting"]
          /\ reconnectAttempts' = IF again /\ build.reconnectOnSocket THEN n
                                  ELSE reconnectAttempts
          /\ toasts' = IF last
                       THEN [t1 EXCEPT !.exhausted = @ + 1,
                                       !.failed = @ + IF build.reconnectOnSocket THEN 1 ELSE 0]
                       ELSE t1
    /\ isConnecting' = ConnectingAfterError
    /\ promises' = [promises EXCEPT ![s] = IF @ = "pending" THEN "rejected" ELSE @]
    /\ UNCHANGED <<lateVars, build, lastEmit, eventListeners, cleanups, serverVars, facadeVars, socket,
                   token, connectionPromise, inbound, storeVars, callVars, envVars, histVars>>

\* the transport loses the connection ('disconnect' handler, lines 84-91, with a
\* reason other than 'io server disconnect': it only logs); the transport then
\* tries to reconnect by itself (line 47)
TransportDrop(s) ==
    /\ sockets[s].status = "connected"
    /\ sockets' = [sockets EXCEPT ![s].status = "reconnecting", ![s].attempts = 0,
                                  ![s].dropped = TRUE]
    /\ inbound' = << >>
    /\ calls' = LoseAcks(calls, s)
    /\ UNCHANGED <<lateVars, auxVars, serverVars, facadeVars, ctrlVars, promises, storeVars, fetches,
                   lastFetch, inits, lastInit,
                   envVars, histVars>>

\* SocketService.disconnect(), lines 256-274
CtrlDisconnect ==
    /\ socket # 0 \/ token # NoToken
    /\ sockets' = TearDown(sockets, socket)
    /\ inbound' = IF socket = 0 THEN inbound ELSE << >>
    /\ calls' = IF socket = 0 THEN calls ELSE LoseAcks(calls, socket)
    /\ socket' = 0
    /\ token' = NoToken
    /\ isConnecting' = FALSE
    /\ reconnectAttempts' = 0
    /\ connectionPromise' = 0
    /\ eventListeners' = IF socket = 0 THEN eventListeners
                         ELSE [e \in RegistryEvents |-> << >>]
    /\ UNCHANGED <<lateVars, toasts, build, lastEmit, cleanups, serverVars, facadeVars, promises,
                   storeVars, fetches, lastFetch, inits, lastInit, envVars, histVars>>

\* SocketService.on(event, listener), lines 180-193
CtrlOn(ev) ==
    /\ Len(eventListeners[ev]) < MaxListeners
    /\ socket # 0
    /\ sockets' = [sockets EXCEPT ![socket].tracked = @ + 1]
    /\ eventListeners' = [eventListeners EXCEPT ![ev] = Append(@, socket)]
    /\ UNCHANGED <<lateVars, toasts, build, lastEmit, cleanups, serverVars, facadeVars, ctrlVars,
                   promises, inbound, storeVars, callVars, envVars, histVars>>

\* SocketService.off(event, listener), lines 196-209, for the i-th tracked
\* listener of the event: it is taken off the current socket and out of the registry
CtrlOff(ev, i) ==
    /\ socket # 0
    /\ i \in 1..Len(eventListeners[ev])
    /\ sockets' = IF eventListeners[ev][i] = socket
                  THEN [sockets EXCEPT ![socket].tracked = @ - 1]
                  ELSE sockets
    /\ eventListeners' = [eventListeners EXCEPT ![ev] =
                             [j \in 1..(Len(@) - 1) |-> IF j < i THEN @[j] ELSE @[j + 1]]]
    /\ UNCHANGED <<lateVars, toasts, build, lastEmit, cleanups, serverVars, facadeVars, ctrlVars,
                   promises, inbound, storeVars, callVars, envVars, histVars>>

\* SocketService.emit(event, data, callback), lines 158-177: TRUE when the
\* event is handed to the transport
CanEmit == Connected(socket)

\* mutant of emit: without connection the callback is not invoked
emitSilent(connected, callback, transportThrows) ==
    IF ~connected
    THEN [returned |-> FALSE, forwarded |-> 0, withCallback |-> FALSE,
          callbackCalls |-> 0, callbackError |-> "", thrown |-> FALSE]
    ELSE IF transportThrows
    THEN [returned |-> FALSE, forwarded |-> 0, withCallback |-> FALSE,
          callbackCalls |-> IF callback THEN 1 ELSE 0,
          callbackError |-> IF callback THEN handleError(PlainError, TRUE) ELSE "",
          thrown |-> FALSE]
    ELSE [returned |-> TRUE, forwarded |-> 1, withCallback |-> callback,
          callbackCalls |-> 0, callbackError |-> "", thrown |-> FALSE]

\* SocketService.emit(event, data, callback), lines 158-177: what the call returns,
\* what it hands to socket.emit, and what it calls the callback with before it
\* returns; transportThrows: socket.emit throws (lines 172-176)
emit(connected, callback, transportThrows) ==
    IF ~connected
    THEN [returned |-> FALSE, forwarded |-> 0, withCallback |-> FALSE,
          callbackCalls |-> IF callback THEN 1 ELSE 0,
          callbackError |-> IF callback THEN AppError(ErrorTypes.NETWORK).type ELSE "",
          thrown |-> FALSE]
    ELSE IF transportThrows
    THEN [returned |-> FALSE, forwarded |-> 0, withCallback |-> FALSE,
          callbackCalls |-> IF callback THEN 1 ELSE 0,
          callbackError |-> IF callback THEN handleError(PlainError, TRUE) ELSE "",
          thrown |-> FALSE]
    ELSE [returned |-> TRUE, forwarded |-> 1, withCallback |-> callback,
          callbackCalls |-> 0, callbackError |-> "", thrown |-> FALSE]

\* a caller uses SocketService.emit directly
CtrlEmit(ev, callback, transportThrows) ==
    /\ lastEmit.n < MaxEmits
    /\ LET out == emit(CanEmit, callback, transportThrows)
       IN /\ lastEmit' = [n |-> lastEmit.n + 1, connected |-> CanEmit, callback |-> callback,
                          transportThrew |-> CanEmit /\ transportThrows,
                          returned |-> out.returned, forwarded |-> out.forwarded,
                          withCallback |-> out.withCallback,
                          callbackCalls |-> out.callbackCalls,
                          callbackError |-> out.callbackError, thrown |-> out.thrown]
          /\ emitted' = [emitted EXCEPT ![ev] = @ + out.forwarded]
    /\ UNCHANGED <<lateVars, toasts, build, eventListeners, cleanups, serverVars, facadeVars, ctrlVars,
                   netVars, storeVars, callVars, windowEvents, typing, now, onLine, histVars>>

(***************************************************************************)
(* Chat Session Facade: ChatService.initialize / setupSocketListeners /    *)
(* cleanup (src/src/services/chat.js)                                      *)
(***************************************************************************)
\* the state of what initialize awaits: promise 0 is the socket returned at once (line 25)
Settled(p) == IF p = 0 THEN "resolved" ELSE promises[p]

IdleInits == {c \in 1..MaxInits : inits[c].status = "idle"}

\* mutant of AlreadyInitialized: the guard of initialize is missing
AlreadyInitializedIgnored == FALSE

\* initialize, line 21: if (this.isInitialized) return
AlreadyInitialized == isInitialized

\* ChatService.initialize(token), lines 20-24: up to the await
FacadeInitialize(c, tok) ==
    /\ InitCalls < MaxInits
    /\ IdleInits # {} /\ c = CHOOSE x \in IdleInits : \A y \in IdleInits : x <= y
    /\ IF AlreadyInitialized
       THEN /\ inits' = [inits EXCEPT ![c].status = "returned"]
            /\ UNCHANGED <<ctrlVars, netVars, calls, lastInit>>
       ELSE /\ SocketInitialize(tok)
            /\ inits' = [inits EXCEPT ![c] =
                  IF lastInit'.kind = "throw"
                  THEN [status |-> "rejected", promise |-> 0,
                        error |-> handleError(AppError(ErrorTypes.AUTHENTICATION), onLine)]
                  ELSE [status |-> "awaiting", promise |-> lastInit'.promise, error |-> ""]]
    /\ UNCHANGED <<lateVars, auxVars, serverVars, facadeVars, storeVars, fetches, lastFetch, envVars,
                   histVars>>

\* ChatService.initialize, lines 25-26, once the awaited promise is fulfilled:
\* setupSocketListeners (lines 33-79) and isInitialized = true
FacadeInitResume(c) ==
    /\ inits[c].status = "awaiting"
    /\ Settled(inits[c].promise) = "resolved"
    /\ sockets' = IF socket = 0 THEN sockets
                  ELSE [sockets EXCEPT ![socket].listeners = @ + 1]
    /\ isInitialized' = TRUE
    /\ inits' = [inits EXCEPT ![c].status = "resolved"]
    /\ UNCHANGED <<lateVars, auxVars, serverVars, currentRoom, typingUsers, messageCache, debounce,
                   ctrlVars, promises,
                   inbound, storeVars, fetches, lastFetch, calls, lastInit, envVars, histVars>>

\* ChatService.initialize, lines 27-29, once the awaited promise is rejected
FacadeInitReject(c) ==
    /\ inits[c].status = "awaiting"
    /\ Settled(inits[c].promise) = "rejected"
    /\ inits' = [inits EXCEPT ![c].status = "rejected",
                               ![c].error = handleError(ConnectErrorReason, onLine)]
    /\ UNCHANGED <<lateVars, auxVars, serverVars, facadeVars, ctrlVars, netVars, storeVars, fetches,
                   lastFetch, calls, lastInit,
                   envVars, histVars>>

\* mutant of DebounceAfterCleanup: the pending timer is left running
DebounceAfterCleanupKept(d) == d

\* this.debouncedStopTyping.cancel(), line 338
DebounceAfterCleanup(d) == [d EXCEPT !.armed = FALSE]

\* ChatService.cleanup(), lines 331-339
cleanup ==
    /\ cleanups.n < MaxCleanups
    /\ cleanups' = [n |-> cleanups.n + 1, typedSince |-> FALSE]
    /\ currentRoom' = NoRoom
    /\ typingUsers' = {}
    /\ messageCache' = << >>
    /\ isInitialized' = FALSE
    /\ debounce' = DebounceAfterCleanup(debounce)
    /\ base' = << >>
    /\ arrived' = [r \in Rooms |-> << >>]
    /\ typing' = [typing EXCEPT !.clean = FALSE]
    /\ UNCHANGED <<toasts, build, lastEmit, eventListeners, serverVars, ctrlVars, netVars,
                   storeVars, callVars, emitted, windowEvents, now, onLine, handled>>

\* a call of chatService.cleanup() by a component
FacadeCleanup == cleanup /\ UNCHANGED lateVars

\* AuthProvider.logout, part_007 lines 115-132: when authService.logout()
\* succeeds the chat service is cleaned up and the user state cleared; when it
\* fails only the user state is cleared
AuthLogout(ok) ==
    /\ authUser # NoUser
    /\ authUser' = NoUser
    /\ IF ok THEN cleanup
       ELSE UNCHANGED <<cleanups, facadeVars, base, arrived, typing, toasts, build,
                        lastEmit, eventListeners, serverVars, ctrlVars, netVars, storeVars,
                        callVars, emitted, windowEvents, now, onLine, handled>>
    /\ UNCHANGED <<joinReqs, outbox, published, typingSince>>

(***************************************************************************)
(* Message store: Message.getMessagesForRoom (src/server/models/Message.js)*)
(***************************************************************************)
Reverse(s) == [i \in 1..Len(s) |-> s[Len(s) + 1 - i]]
SelectNotDeleted(s) == SelectSeq(s, LAMBDA m : ~m.deleted)

\* find({room, deleted: false}).sort({createdAt: -1}).skip((page-1)*limit).limit(limit)
getMessagesForRoom(stored, page, limit) ==
    LET found == Reverse(SelectNotDeleted(stored))
        skip == (page - 1) * limit
        page_ == SubSeq(found, skip + 1, Min(skip + limit, Len(found)))
    IN [i \in 1..Len(page_) |-> ClientMsg(page_[i])]

StoredCount == Len(serverMsgs["r1"]) + Len(serverMsgs["r2"])

\* the newest stored messages of a room, the ones other users edit or delete
Recent(r) == {i \in 1..Len(serverMsgs[r]) :
                 i > Len(serverMsgs[r]) - EditWindow /\ ~serverMsgs[r][i].deleted}

\* the server emits an event to this client's connection
Broadcast(ev) == IF Connected(socket) THEN Append(inbound, ev) ELSE inbound

\* another user sends a message to room r: it is stored and broadcast as new-message
OtherUserSends(r) ==
    /\ serverOps < MaxServerOps /\ Len(inbound) < MaxInFlight
    /\ serverOps' = serverOps + 1
    /\ LET m == StoredMsg(StoredCount + 1, r)
       IN /\ serverMsgs' = [serverMsgs EXCEPT ![r] = Append(@, m)]
          /\ inbound' = Broadcast([type |-> "new-message", msg |-> ClientMsg(m)])
    /\ UNCHANGED <<lateVars, auxVars, serverVars, facadeVars, ctrlVars, sockets, promises, callVars,
                   envVars, histVars>>

\* another user edits a message (pre-save hook, lines 98-104): broadcast as message-updated
OtherUserEdits(r, i) ==
    /\ serverOps < MaxServerOps /\ Len(inbound) < MaxInFlight
    /\ i \in Recent(r) /\ ~serverMsgs[r][i].edited
    /\ serverOps' = serverOps + 1
    /\ serverMsgs' = [serverMsgs EXCEPT ![r][i].edited = TRUE]
    /\ inbound' = Broadcast([type |-> "message-updated", msg |-> ClientMsg(serverMsgs'[r][i])])
    /\ UNCHANGED <<lateVars, auxVars, serverVars, facadeVars, ctrlVars, sockets, promises, callVars,
                   envVars, histVars>>

\* another user deletes a message (softDelete, lines 107-112): broadcast as message-deleted
OtherUserDeletes(r, i) ==
    /\ serverOps < MaxServerOps /\ Len(inbound) < MaxInFlight
    /\ i \in Recent(r)
    /\ serverOps' = serverOps + 1
    /\ serverMsgs' = [serverMsgs EXCEPT ![r][i].deleted = TRUE]
    /\ inbound' = Broadcast([type |-> "message-deleted", msg |-> ClientMsg(serverMsgs[r][i])])
    /\ UNCHANGED <<lateVars, auxVars, serverVars, facadeVars, ctrlVars, sockets, promises, callVars,
                   envVars, histVars>>

(***************************************************************************)
(* Chat Session Facade: the message cache (src/src/services/chat.js)       *)
(***************************************************************************)
HasId(msgs, id) == \E i \in 1..Len(msgs) : msgs[i].id = id
\* Array.prototype.findIndex(msg => msg._id === id), 0 when there is none
FindIndex(msgs, id) ==
    IF HasId(msgs, id)
    THEN CHOOSE i \in 1..Len(msgs) : msgs[i].id = id /\ \A j \in 1..(i - 1) : msgs[j].id # id
    ELSE 0
RemoveAt(msgs, i) == [j \in 1..(Len(msgs) - 1) |-> IF j < i THEN msgs[j] ELSE msgs[j + 1]]

\* mutant of handleNewMessage: the truncation keeps the oldest entries
handleNewMessageKeepOldest(cache, m) ==
    IF m.room # NoRoom /\ m.room \in DOMAIN cache
    THEN LET messages == Append(cache[m.room], m)
         IN [cache EXCEPT ![m.room] =
                IF Len(messages) > CacheCap THEN SubSeq(messages, 1, CacheCap) ELSE messages]
    ELSE cache

\* handleNewMessage, lines 84-92: the cache after one invocation
handleNewMessage(cache, m) ==
    IF m.room # NoRoom /\ m.room \in DOMAIN cache
    THEN LET messages == Append(cache[m.room], m)
         IN [cache EXCEPT ![m.room] =
                IF Len(messages) > CacheCap
                THEN SubSeq(messages, Len(messages) - CacheCap + 1, Len(messages))
                ELSE messages]
    ELSE cache

\* handleMessageUpdate, lines 100-106
handleMessageUpdate(cache, m) ==
    IF m.room # NoRoom /\ m.room \in DOMAIN cache /\ FindIndex(cache[m.room], m.id) # 0
    THEN [cache EXCEPT ![m.room][FindIndex(cache[m.room], m.id)] = m]
    ELSE cache

\* handleMessageDelete, lines 114-119: every cached room is scanned
handleMessageDelete(cache, id) ==
    [r \in DOMAIN cache |->
        IF FindIndex(cache[r], id) # 0 THEN RemoveAt(cache[r], FindIndex(cache[r], id))
        ELSE cache[r]]

\* mutant of getMessagesCache: a later page is appended after the cached entries
getMessagesCacheAppend(cache, roomId, page, data) ==
    LET c1 == IF roomId \in DOMAIN cache THEN cache ELSE (roomId :> << >>) @@ cache
    IN IF page = 1 THEN [c1 EXCEPT ![roomId] = data]
       ELSE [c1 EXCEPT ![roomId] = @ \o data]

\* getMessages, lines 173-184: the cache after a successful fetch of data.messages
getMessagesCache(cache, roomId, page, data) ==
    LET c1 == IF roomId \in DOMAIN cache THEN cache ELSE (roomId :> << >>) @@ cache
    IN IF page = 1 THEN [c1 EXCEPT ![roomId] = data]
       ELSE [c1 EXCEPT ![roomId] = data \o @]

\* a handler installed n times on the socket runs n times for one event
RECURSIVE NewMessageTimes(_, _, _)
NewMessageTimes(cache, m, n) ==
    IF n = 0 THEN cache ELSE NewMessageTimes(handleNewMessage(cache, m), m, n - 1)
RECURSIVE UpdateTimes(_, _, _)
UpdateTimes(cache, m, n) ==
    IF n = 0 THEN cache ELSE UpdateTimes(handleMessageUpdate(cache, m), m, n - 1)
RECURSIVE DeleteTimes(_, _, _)
DeleteTimes(cache, id, n) ==
    IF n = 0 THEN cache ELSE DeleteTimes(handleMessageDelete(cache, id), id, n - 1)
Copies(m, n) == [i \in 1..n |-> m]

\* the history restarts for the rooms whose cache entry another operation touched
BaseAfter(cache, rooms) ==
    [r \in DOMAIN cache |-> IF r \in rooms \/ r \notin DOMAIN base THEN cache[r] ELSE base[r]]
ArrivedAfter(rooms) == [r \in Rooms |-> IF r \in rooms THEN << >> ELSE arrived[r]]

\* handleNewMessage, line 95: window.dispatchEvent, whatever the cache holds
Republished(cache, m) == 1

IdleFetches == {f \in 1..MaxFetches : fetches[f].status = "idle"}
\* the failures of the HTTP collaborator: no response, or a 500 response
NoResponse == [PlainError EXCEPT !.request = TRUE]
Http500 == [PlainError EXCEPT !.status = 500]

\* getMessages(roomId, page, limit), lines 164-170: the request is sent and the
\* server reads the page
GetMessagesStart(f, roomId, page, limit) ==
    /\ lastFetch.n + Cardinality((1..MaxFetches) \ IdleFetches) < MaxFetches
    /\ Cardinality((1..MaxFetches) \ IdleFetches) < MaxPending
    /\ IdleFetches # {} /\ f = CHOOSE x \in IdleFetches : \A y \in IdleFetches : x <= y
    /\ fetches' = [fetches EXCEPT ![f] =
          [status |-> "pending", room |-> roomId, page |-> page, limit |-> limit,
           data |-> getMessagesForRoom(serverMsgs[roomId], page, limit),
           live |-> << >>]]
    /\ UNCHANGED <<lateVars, auxVars, serverVars, facadeVars, ctrlVars, netVars, storeVars, lastFetch,
                   calls, inits, lastInit,
                   envVars, histVars>>

\* getMessages, lines 172-186: the response arrives
GetMessagesOk(f) ==
    /\ fetches[f].status = "pending"
    /\ messageCache' = getMessagesCache(messageCache, fetches[f].room, fetches[f].page,
                                        fetches[f].data)
    /\ fetches' = [fetches EXCEPT ![f] = IdleFetch]
    /\ lastFetch' = [n |-> lastFetch.n + 1, slot |-> f, status |-> "ok",
                     page |-> fetches[f].page, result |-> fetches[f].data, error |-> ""]
    /\ base' = BaseAfter(messageCache', {fetches[f].room})
    /\ arrived' = ArrivedAfter({fetches[f].room})
    /\ UNCHANGED <<lateVars, auxVars, serverVars, currentRoom, typingUsers, isInitialized, debounce,
                   ctrlVars, netVars,
                   storeVars, calls, inits, lastInit, envVars, handled>>

\* getMessages, lines 187-189: the request fails
GetMessagesFail(f, error) ==
    /\ fetches[f].status = "pending"
    /\ fetches' = [fetches EXCEPT ![f] = IdleFetch]
    /\ lastFetch' = [n |-> lastFetch.n + 1, slot |-> f, status |-> "failed",
                     page |-> fetches[f].page, result |-> << >>,
                     error |-> handleError(error, onLine)]
    /\ UNCHANGED <<lateVars, auxVars, serverVars, facadeVars, ctrlVars, netVars, storeVars, calls, inits,
                   lastInit,
                   envVars, histVars>>

\* the listeners of setupSocketListeners (lines 38-48) run for the next inbound event
Listeners == IF socket = 0 THEN 0 ELSE sockets[socket].listeners

OnNewMessage ==
    /\ inbound # << >> /\ Head(inbound).type = "new-message"
    /\ inbound' = Tail(inbound)
    /\ LET m == Head(inbound).msg
       IN /\ messageCache' = NewMessageTimes(messageCache, m, Listeners)
          /\ windowEvents' = [windowEvents EXCEPT !["chat:new-message"] =
                                  @ + Listeners * Republished(messageCache, m)]
          /\ arrived' = [arrived EXCEPT ![m.room] = @ \o Copies(m, Listeners)]
          /\ handled' = handled + Listeners
          /\ fetches' = [f \in DOMAIN fetches |->
                            IF fetches[f].status = "pending" /\ fetches[f].room = m.room
                                 /\ Listeners > 0
                            THEN [fetches[f] EXCEPT !.live = Append(@, m.id)]
                            ELSE fetches[f]]
    /\ UNCHANGED <<lateVars, auxVars, serverVars, currentRoom, typingUsers, isInitialized, debounce,
                   ctrlVars, sockets,
                   promises, storeVars, lastFetch, calls, inits, lastInit, emitted, typing,
                   now, onLine, base>>

OnMessageUpdated ==
    /\ inbound # << >> /\ Head(inbound).type = "message-updated"
    /\ inbound' = Tail(inbound)
    /\ LET m == Head(inbound).msg
       IN /\ messageCache' = UpdateTimes(messageCache, m, Listeners)
          /\ windowEvents' = [windowEvents EXCEPT !["chat:message-updated"] = @ + Listeners]
          /\ base' = IF Listeners > 0 THEN BaseAfter(messageCache', {m.room}) ELSE base
          /\ arrived' = IF Listeners > 0 THEN ArrivedAfter({m.room}) ELSE arrived
    /\ UNCHANGED <<lateVars, auxVars, serverVars, currentRoom, typingUsers, isInitialized, debounce,
                   ctrlVars, sockets,
                   promises, storeVars, callVars, emitted, typing, now, onLine, handled>>

OnMessageDeleted ==
    /\ inbound # << >> /\ Head(inbound).type = "message-deleted"
    /\ inbound' = Tail(inbound)
    /\ LET m == Head(inbound).msg
       IN /\ messageCache' = DeleteTimes(messageCache, m.id, Listeners)
          /\ windowEvents' = [windowEvents EXCEPT !["chat:message-deleted"] = @ + Listeners]
          /\ base' = IF Listeners > 0 THEN BaseAfter(messageCache', Rooms) ELSE base
          /\ arrived' = IF Listeners > 0 THEN ArrivedAfter(Rooms) ELSE arrived
    /\ UNCHANGED <<lateVars, auxVars, serverVars, currentRoom, typingUsers, isInitialized, debounce,
                   ctrlVars, sockets,
                   promises, storeVars, callVars, emitted, typing, now, onLine, handled>>

(***************************************************************************)
(* Chat Session Facade: joinRoom / leaveRoom / sendMessage                 *)
(***************************************************************************)
IdleCalls == {c \in 1..MaxCalls : calls[c].status = "idle"}
NextCall(c) == IdleCalls # {} /\ c = CHOOSE x \in IdleCalls : \A y \in IdleCalls : x <= y

\* SocketService.emit with an acknowledgement callback (part_005 lines 158-177), as
\* joinRoom/leaveRoom/sendMessage of both classes use it: the call is either handed
\* to the transport, or its callback runs at once with a NETWORK AppError, which the
\* facade passes to handleError and rejects with
Exchange(c, op, arg, roomId) ==
    IF CanEmit
    THEN /\ calls' = [calls EXCEPT ![c] = [status |-> "pending", op |-> op, arg |-> arg,
                         room |-> roomId, sock |-> socket, error |-> "", emits |-> 1,
                         lost |-> FALSE]]
         /\ emitted' = [emitted EXCEPT ![op] = @ + 1]
    ELSE /\ calls' = [calls EXCEPT ![c] = [status |-> "rejected", op |-> op, arg |-> arg,
                         room |-> roomId, sock |-> 0,
                         error |-> handleError(AppError(ErrorTypes.NETWORK), onLine),
                         emits |-> 0, lost |-> FALSE]]
         /\ UNCHANGED emitted

\* ChatService.joinRoom(roomId), lines 230-241, up to the emit
JoinRoom(c, roomId) ==
    /\ NextCall(c)
    /\ Exchange(c, "join-room", roomId, roomId)
    /\ UNCHANGED <<lateVars, auxVars, serverVars, facadeVars, ctrlVars, netVars, storeVars, fetches,
                   lastFetch, inits, lastInit,
                   windowEvents, typing, now, onLine, histVars>>

\* ChatService.leaveRoom(roomId), lines 244-257, up to the emit
LeaveRoom(c, roomId) ==
    /\ NextCall(c)
    /\ Exchange(c, "leave-room", roomId, roomId)
    /\ UNCHANGED <<lateVars, auxVars, serverVars, facadeVars, ctrlVars, netVars, storeVars, fetches,
                   lastFetch, inits, lastInit,
                   windowEvents, typing, now, onLine, histVars>>

\* chatServiceWithErrorHandling.sendMessage(content, roomId = this.currentRoom),
\* lines 260-274 and 357: arg is the room argument, NoRoom when it is left out
SendMessage(c, arg) ==
    /\ NextCall(c)
    /\ LET roomId == IF arg = NoRoom THEN currentRoom ELSE arg
       IN IF roomId = NoRoom
          THEN \* throw new Error('No room specified or joined'), caught by withErrorHandling
               /\ calls' = [calls EXCEPT ![c] = [status |-> "rejected", op |-> "send-message",
                               arg |-> arg, room |-> NoRoom, sock |-> 0,
                               error |-> handleError(PlainError, onLine),
                               emits |-> 0, lost |-> FALSE]]
               /\ UNCHANGED emitted
          ELSE Exchange(c, "send-message", arg, roomId)
    /\ UNCHANGED <<lateVars, auxVars, serverVars, facadeVars, ctrlVars, netVars, storeVars, fetches,
                   lastFetch, inits, lastInit,
                   windowEvents, typing, now, onLine, histVars>>

\* mutant of JoinedRoom: the current room is set whatever the acknowledgement says
JoinedRoomAlways(cur, c, ok) ==
    IF calls[c].op = "join-room" THEN calls[c].room
    ELSE IF calls[c].op = "leave-room" /\ ok /\ cur = calls[c].room THEN NoRoom
    ELSE cur

\* the callbacks of joinRoom (lines 233-238) and leaveRoom (lines 247-254): the
\* current room after the acknowledgement
JoinedRoom(cur, c, ok) ==
    IF ok /\ calls[c].op = "join-room" THEN calls[c].room
    ELSE IF ok /\ calls[c].op = "leave-room" /\ cur = calls[c].room THEN NoRoom
    ELSE cur

\* the server's acknowledgement reaches the callback of a pending exchange; the
\* transport only delivers it on the connection the request was sent on
Ack(c, ok) ==
    /\ calls[c].status = "pending"
    /\ ~calls[c].lost /\ Connected(calls[c].sock)
    /\ currentRoom' = JoinedRoom(currentRoom, c, ok)
    /\ calls' = [calls EXCEPT ![c].status = IF ok THEN "resolved" ELSE "rejected",
                              ![c].error = IF ok THEN "" ELSE handleError(PlainError, onLine)]
    /\ UNCHANGED <<lateVars, auxVars, serverVars, typingUsers, messageCache, isInitialized, debounce,
                   ctrlVars, netVars,
                   storeVars, fetches, lastFetch, inits, lastInit, envVars, histVars>>

(***************************************************************************)
(* Chat Session Facade: typing indicator                                   *)
(***************************************************************************)
\* mutant of DebounceDue: the timer runs out one tick early
DebounceDueEarly(d, t) == d.armed /\ t - d.lastCallAt >= DebounceWaitMs - TickMs

\* debounce(fn, 3000), lines 14-16: the trailing call is due once 3000 ms have
\* passed since the last call of the debounced function
DebounceDue(d, t) == d.armed /\ t - d.lastCallAt >= DebounceWaitMs

\* startTyping, line 294: socketService.emitTyping(roomId) in every call
TypingEmits(armed) == 1

\* ChatService.startTyping(roomId = this.currentRoom), lines 291-296; a timer that
\* is due runs before the next call
StartTyping(arg) ==
    /\ ~DebounceDue(debounce, now)
    /\ typing.calls < MaxTyping \/ typing.lastCallAt + DebounceWaitMs <= now
    /\ LET roomId == IF arg = NoRoom THEN currentRoom ELSE arg
           sent == IF CanEmit THEN TypingEmits(debounce.armed) ELSE 0
           fresh == typing.calls = 0 \/ now - typing.lastCallAt >= DebounceWaitMs
           pre == CanEmit /\ currentRoom = roomId
       IN /\ roomId # NoRoom
          /\ emitted' = [emitted EXCEPT !["typing"] = @ + sent]
          /\ debounce' = [armed |-> TRUE, lastCallAt |-> now]
          /\ typing' = IF fresh
                       THEN [calls |-> 1, typingEmits |-> sent, stops |-> 0, stopAt |-> 0,
                             lastCallAt |-> now, room |-> roomId, clean |-> pre,
                             armedFor |-> roomId, stopRoom |-> NoRoom]
                       ELSE [typing EXCEPT !.calls = @ + 1, !.typingEmits = @ + sent,
                                           !.lastCallAt = now, !.armedFor = roomId,
                                           !.clean = @ /\ pre /\ roomId = typing.room]
          /\ cleanups' = [cleanups EXCEPT !.typedSince = TRUE]
    /\ UNCHANGED <<lateVars, toasts, build, lastEmit, eventListeners, serverVars, currentRoom, typingUsers, messageCache, isInitialized,
                   ctrlVars, netVars,
                   storeVars, callVars, windowEvents, now, onLine, histVars>>

\* the debounce timer runs out: stopTyping(), lines 298-302
StopTypingTimer ==
    /\ DebounceDue(debounce, now)
    /\ debounce' = [debounce EXCEPT !.armed = FALSE]
    /\ LET sent == IF currentRoom # NoRoom /\ CanEmit THEN 1 ELSE 0
       IN /\ emitted' = [emitted EXCEPT !["stop-typing"] = @ + sent]
          /\ typing' = [typing EXCEPT !.stops = @ + sent,
                                      !.stopAt = IF sent = 1 THEN now ELSE @,
                                      !.stopRoom = IF sent = 1 THEN currentRoom ELSE @,
                                      !.armedFor = NoRoom,
                                      !.clean = @ /\ CanEmit /\ currentRoom = typing.room]
    /\ UNCHANGED <<lateVars, auxVars, serverVars, currentRoom, typingUsers, messageCache, isInitialized,
                   ctrlVars, netVars,
                   storeVars, callVars, windowEvents, now, onLine, histVars>>

\* time passes; a timer that is due runs before the clock moves on
Tick ==
    /\ now < MaxTimeMs
    /\ ~DebounceDue(debounce, now)
    /\ now' = IF debounce.armed
              THEN Min(now + TickMs, debounce.lastCallAt + DebounceWaitMs)
              ELSE now + TickMs
    /\ UNCHANGED <<lateVars, auxVars, serverVars, facadeVars, ctrlVars, netVars, storeVars, callVars,
                   emitted, windowEvents,
                   typing, onLine, histVars>>

\* the 'user-typing' handler (lines 51-53) runs handleUserTyping (lines 125-128)
\* for an event of the server about user u; the window event is not counted
OnUserTyping(u) ==
    /\ Connected(socket) /\ Listeners > 0
    /\ typingUsers' = typingUsers \cup {u}
    /\ typingSince' = [typingSince EXCEPT ![u] = now]
    /\ UNCHANGED <<joinReqs, outbox, published, authUser, auxVars, serverVars, currentRoom,
                   messageCache, isInitialized, debounce,
                   ctrlVars, netVars, storeVars, callVars, envVars, histVars>>

\* the 'user-stopped-typing' handler (lines 55-57) runs handleUserStoppedTyping
\* (lines 131-134)
OnUserStoppedTyping(u) ==
    /\ Connected(socket) /\ Listeners > 0
    /\ typingUsers' = typingUsers \ {u}
    /\ UNCHANGED <<lateVars, auxVars, serverVars, currentRoom, messageCache, isInitialized,
                   debounce, ctrlVars, netVars, storeVars, callVars, envVars, histVars>>

(***************************************************************************)
(* Realtime server: handshake, rooms of the socket server, Room documents  *)
(***************************************************************************)
\* next(new Error('Authentication error: ' + detail)): the connection is refused
Refused(detail) ==
    [status |-> "refused", user |-> NoUser,
     error |-> [kind |-> "Authentication error", detail |-> detail]]

\* mutant of authenticateSocket: the isActive test is left out
authenticateSocketAnyUser(credential, dbDown) ==
    IF credential.kind = "none" THEN Refused("No token provided")
    ELSE IF credential.kind # "valid" \/ dbDown THEN Refused("Invalid token")
    ELSE IF credential.id \notin DOMAIN Accounts THEN Refused("User not found")
    ELSE [status |-> "accepted", user |-> credential.id, error |-> NoError]

\* authenticateSocket, authMiddleware.js lines 154-183: jwt.verify throws for a
\* token that is not valid and User.findById for a database that is down, and
\* the catch answers both with 'Invalid token'
authenticateSocket(credential, dbDown) ==
    IF credential.kind = "none" THEN Refused("No token provided")
    ELSE IF credential.kind # "valid" \/ dbDown THEN Refused("Invalid token")
    ELSE IF credential.id \notin DOMAIN Accounts THEN Refused("User not found")
    ELSE IF ~Accounts[credential.id].isActive THEN Refused("Account deactivated")
    ELSE [status |-> "accepted", user |-> credential.id, error |-> NoError]

\* a client opens connection conn with the credential; the middleware decides
ServerHandshake(conn, credential, dbDown) ==
    /\ sessions[conn].status = "none"
    /\ LET r == authenticateSocket(credential, dbDown)
       IN sessions' = [sessions EXCEPT ![conn] =
              [status |-> r.status, user |-> r.user, error |-> r.error,
               credential |-> credential, dbDown |-> dbDown]]
    /\ UNCHANGED <<lateVars, ioRooms, roomDocs, lastAdd, auxVars, facadeVars, ctrlVars, netVars,
                   storeVars, callVars, envVars, histVars>>

\* the 'joinRoom' handler of the socket server, src/server.js lines 5-8, for a
\* connection that got past the handshake; userId and roomId are what the
\* client sent
ServerJoinRoom(conn, userId, roomId) ==
    /\ sessions[conn].status = "accepted"
    /\ ioRooms' = [ioRooms EXCEPT ![roomId] = @ \cup {conn}]
    /\ UNCHANGED <<lateVars, sessions, roomDocs, lastAdd, auxVars, facadeVars, ctrlVars, netVars,
                   storeVars, callVars, envVars, histVars>>

\* mutant of Recipients: the room's events go to the sender too
RecipientsWithSender(roomId, conn) == ioRooms[roomId]

\* socket.to(roomId), src/server.js line 13: the connections of the room
\* other than the sending one
Recipients(roomId, conn) == ioRooms[roomId] \ {conn}

\* the 'sendMessage' handler, src/server.js lines 11-14: the message is emitted
\* as 'receiveMessage' to the recipients; each connection gets what is sent to
\* it in the order of the emits
ServerSendMessage(conn, roomId) ==
    /\ sessions[conn].status = "accepted"
    /\ Len(published) < MaxPublishes
    /\ LET id == Len(published) + 1
           to == Recipients(roomId, conn)
       IN /\ published' = Append(published, [id |-> id, room |-> roomId, from |-> conn])
          /\ outbox' = [c \in Conns |->
                           IF c \in to THEN Append(outbox[c], [id |-> id, room |-> roomId])
                           ELSE outbox[c]]
    /\ UNCHANGED <<joinReqs, typingSince, authUser, serverVars, auxVars, facadeVars,
                   ctrlVars, netVars, storeVars, callVars, envVars, histVars>>

\* mutant of RoomsAfterDisconnect: the connection stays in its rooms
RoomsAfterDisconnectKept(conn) == ioRooms

\* the socket server takes a connection that ended out of every room
RoomsAfterDisconnect(conn) == [r \in DOMAIN ioRooms |-> ioRooms[r] \ {conn}]

\* the connection ends, by the client or by transport loss (src/server.js lines
\* 17-19): the handler logs; the socket and what it received are gone
ServerDisconnect(conn) ==
    /\ sessions[conn].status # "none"
    /\ sessions' = [sessions EXCEPT ![conn] = NoSession]
    /\ ioRooms' = RoomsAfterDisconnect(conn)
    /\ outbox' = [outbox EXCEPT ![conn] = << >>]
    /\ UNCHANGED <<joinReqs, published, typingSince, authUser, roomDocs, lastAdd, auxVars, facadeVars, ctrlVars, netVars,
                   storeVars, callVars, envVars, histVars>>

IsMember(members, userId) == \E i \in 1..Len(members) : members[i] = userId

\* mutant of addMember: the member limit is tested before the membership
addMemberLimitFirst(room, userId) ==
    IF Len(room.members) >= room.maxMembers
    THEN [outcome |-> "error", members |-> room.members]
    ELSE IF IsMember(room.members, userId)
    THEN [outcome |-> "resolved", members |-> room.members]
    ELSE [outcome |-> "resolved", members |-> Append(room.members, userId)]

\* roomSchema.methods.addMember, Room.js lines 115-136: the outcome and the
\* member list afterwards
addMember(room, userId) ==
    IF IsMember(room.members, userId)
    THEN [outcome |-> "resolved", members |-> room.members]
    ELSE IF Len(room.members) >= room.maxMembers
    THEN [outcome |-> "error", members |-> room.members]
    ELSE [outcome |-> "resolved", members |-> Append(room.members, userId)]

RoomAddMember(r, userId) ==
    /\ LET out == addMember(roomDocs[r], userId)
       IN /\ roomDocs' = [roomDocs EXCEPT ![r].members = out.members]
          /\ lastAdd' = [room |-> r, user |-> userId, outcome |-> out.outcome,
                         before |-> roomDocs[r].members]
    /\ UNCHANGED <<lateVars, sessions, ioRooms, auxVars, facadeVars, ctrlVars, netVars,
                   storeVars, callVars, envVars, histVars>>

\* roomSchema.methods.removeMember, Room.js lines 139-143
RoomRemoveMember(r, userId) ==
    /\ roomDocs' = [roomDocs EXCEPT ![r].members =
                       SelectSeq(@, LAMBDA m : m # userId)]
    /\ lastAdd' = NoAdd
    /\ UNCHANGED <<lateVars, sessions, ioRooms, auxVars, facadeVars, ctrlVars, netVars,
                   storeVars, callVars, envVars, histVars>>

\* a join request of connection c for identity userId: the handler reads the
\* Room document (the read of the handler is taken from the specification of
\* Join Room)
JoinRead(c, r, userId) ==
    /\ joinReqs[c].phase = "idle"
    /\ joinReqs' = [joinReqs EXCEPT ![c] =
          [phase |-> "read", room |-> r, user |-> userId,
           members |-> roomDocs[r].members, pushed |-> FALSE]]
    /\ UNCHANGED <<outbox, published, typingSince, authUser, serverVars, auxVars, facadeVars,
                   ctrlVars, netVars, storeVars, callVars, envVars, histVars>>

\* addMember on the document that was read, Room.js lines 115-134: the tests
\* and the push are made on the copy in memory; a push is followed by save()
JoinAddMember(c) ==
    /\ joinReqs[c].phase = "read"
    /\ LET q == joinReqs[c]
           out == addMember([members |-> q.members,
                             maxMembers |-> roomDocs[q.room].maxMembers], q.user)
       IN joinReqs' = [joinReqs EXCEPT ![c] =
              IF out.members # q.members
              THEN [q EXCEPT !.phase = "saving", !.members = out.members, !.pushed = TRUE]
              ELSE NoJoin]
    /\ UNCHANGED <<outbox, published, typingSince, authUser, serverVars, auxVars, facadeVars,
                   ctrlVars, netVars, storeVars, callVars, envVars, histVars>>

\* this.save(), Room.js line 135: the document has no optimisticConcurrency
\* option (lines 81-85), so the pushed member reaches the store as a $push on
\* the stored array, whatever other requests have saved since the read
JoinSave(c) ==
    /\ joinReqs[c].phase = "saving"
    /\ roomDocs' = [roomDocs EXCEPT ![joinReqs[c].room].members =
                       Append(@, joinReqs[c].user)]
    /\ joinReqs' = [joinReqs EXCEPT ![c] = NoJoin]
    /\ UNCHANGED <<outbox, published, typingSince, authUser, sessions, ioRooms, lastAdd,
                   auxVars, facadeVars, ctrlVars, netVars, storeVars, callVars, envVars,
                   histVars>>

(***************************************************************************)
(* Specifications                                                          *)
(***************************************************************************)
\* the state once a first ChatService.initialize("t1") has completed: FacadeInitialize,
\* TransportConnect and FacadeInitResume, in this order, lead to it from Init
Ready ==
    /\ currentRoom = NoRoom /\ typingUsers = {} /\ messageCache = << >>
    /\ isInitialized = TRUE
    /\ debounce = [armed |-> FALSE, lastCallAt |-> 0]
    /\ socket = 1 /\ token = "t1" /\ isConnecting = FALSE /\ reconnectAttempts = 0
    /\ connectionPromise = 1
    /\ sockets = [s \in 1..MaxSockets |->
                    IF s = 1 THEN [NoSocket EXCEPT !.status = "connected", !.auth = "t1",
                                                   !.listeners = 1]
                    ELSE NoSocket]
    /\ promises = [p \in 1..MaxSockets |-> IF p = 1 THEN "resolved" ELSE "none"]
    /\ inits = [c \in 1..MaxInits |->
                  IF c = 1 THEN [status |-> "resolved", promise |-> 1, error |-> ""]
                  ELSE IdleInit]
    /\ lastInit = [n |-> 1, token |-> "t1", kind |-> "new", promise |-> 1, socket |-> 0]
    /\ emitted = [e \in EventNames |-> IF e = "auth" THEN 1 ELSE 0]

InitReady ==
    /\ Ready
    /\ inbound = << >>
    /\ serverMsgs = [r \in Rooms |->
                       IF r = "r1" THEN [i \in 1..HistoryLen |-> StoredMsg(i, r)] ELSE << >>]
    /\ serverOps = 0
    /\ fetches = [f \in 1..MaxFetches |-> IdleFetch]
    /\ lastFetch = [n |-> 0, slot |-> 0, status |-> "", page |-> 0, result |-> << >>,
                    error |-> ""]
    /\ calls = [c \in 1..MaxCalls |-> IdleCall]
    /\ windowEvents = [e \in WindowEventNames |-> 0]
    /\ typing = NoBurst
    /\ handled = 0
    /\ now = 0
    /\ onLine = TRUE
    /\ base = << >>
    /\ arrived = [r \in Rooms |-> << >>]
    /\ toasts = NoToasts
    /\ build = ModernBuild
    /\ lastEmit = NoEmit
    /\ eventListeners = [e \in RegistryEvents |-> << >>]
    /\ cleanups = [n |-> 0, typedSince |-> FALSE]
    /\ sessions = [c \in Conns |-> NoSession]
    /\ ioRooms = [r \in ServerRoomIds |-> {}]
    /\ roomDocs = InitialRooms
    /\ lastAdd = NoAdd
    /\ joinReqs = [c \in Conns |-> NoJoin]
    /\ outbox = [c \in Conns |-> << >>]
    /\ published = << >>
    /\ typingSince = [u \in Users |-> 0]
    /\ authUser = "u1"

\* the message cache of an initialized facade: paginated fetches and new messages
NextCache ==
    \/ \E f \in 1..MaxFetches, r \in Rooms, p \in Pages, l \in Limits : GetMessagesStart(f, r, p, l)
    \/ \E f \in 1..MaxFetches : GetMessagesOk(f)
    \/ \E f \in 1..MaxFetches : GetMessagesFail(f, NoResponse)
    \/ \E r \in Rooms : OtherUserSends(r)
    \/ OnNewMessage

SpecCache == InitReady /\ [][NextCache]_vars

\* the same with the edits and deletions of other users
NextCacheEvents ==
    \/ \E f \in 1..MaxFetches, r \in Rooms, p \in Pages, l \in WideLimits :
          GetMessagesStart(f, r, p, l)
    \/ \E f \in 1..MaxFetches : GetMessagesOk(f)
    \/ \E f \in 1..MaxFetches : GetMessagesFail(f, NoResponse)
    \/ \E r \in Rooms : OtherUserSends(r)
    \/ \E r \in Rooms : \E i \in Recent(r) : OtherUserEdits(r, i)
    \/ \E r \in Rooms : \E i \in Recent(r) : OtherUserDeletes(r, i)
    \/ OnNewMessage
    \/ OnMessageUpdated
    \/ OnMessageDeleted

SpecCacheEvents == InitReady /\ [][NextCacheEvents]_vars

\* the typing indicator of an initialized facade, with joins and connection drops
NextTyping ==
    \/ \E c \in 1..MaxJoins, r \in Rooms : JoinRoom(c, r)
    \/ \E c \in 1..MaxJoins, ok \in BOOLEAN : Ack(c, ok)
    \/ \E arg \in Rooms \cup {NoRoom} : StartTyping(arg)
    \/ StopTypingTimer
    \/ Tick
    \/ \E s \in 1..MaxSockets : TransportDrop(s)
    \/ \E s \in 1..MaxSockets : TransportConnect(s)

SpecTyping == InitReady /\ [][NextTyping]_vars

\* the request-response exchanges of an initialized facade, with connection drops
NextCalls ==
    \/ \E c \in 1..MaxCalls, r \in Rooms : JoinRoom(c, r)
    \/ \E c \in 1..MaxCalls, r \in Rooms : LeaveRoom(c, r)
    \/ \E c \in 1..MaxCalls, arg \in Rooms \cup {NoRoom} : SendMessage(c, arg)
    \/ \E c \in 1..MaxCalls, ok \in BOOLEAN : Ack(c, ok)
    \/ \E s \in 1..MaxSockets : emitted["auth"] < MaxConnects /\ TransportDrop(s)
    \/ \E s \in 1..MaxSockets : TransportConnect(s)

\* the connection only drops while the transport can still get it back;
\* the server acknowledges every request that reaches it, and a transport that
\* lost its connection gets it back (reconnection: true, part_005 line 47)
SpecCalls ==
    /\ InitReady /\ [][NextCalls]_vars
    /\ \A c \in 1..MaxCalls : WF_vars(\E ok \in BOOLEAN : Ack(c, ok))
    /\ \A s \in 1..MaxSockets : WF_vars(TransportConnect(s))

\* connection lifecycle of the controller and the facade, from construction
NextConn ==
    \/ \E tok \in Tokens \cup {NoToken} : CtrlInitialize(tok)
    \/ \E c \in 1..MaxInits, tok \in Tokens \cup {NoToken} : FacadeInitialize(c, tok)
    \/ \E c \in 1..MaxInits : FacadeInitResume(c)
    \/ \E c \in 1..MaxInits : FacadeInitReject(c)
    \/ \E s \in 1..MaxSockets : TransportConnect(s)
    \/ \E s \in 1..MaxSockets :
          sockets[s].attempts < MaxConnectErrors /\ TransportConnectError(s)
    \/ \E s \in 1..MaxSockets : TransportDrop(s)
    \/ CtrlDisconnect
    \/ FacadeCleanup

SpecConn == Init /\ [][NextConn]_vars

\* the transport's reconnection policy, with either kind of transport library
InitAnyBuild == Constructed /\ build \in Builds

NextReconnect ==
    \/ \E tok \in Tokens : CtrlInitialize(tok)
    \/ \E s \in 1..MaxSockets : TransportConnect(s)
    \/ \E s \in 1..MaxSockets : TransportConnectError(s)
    \/ \E s \in 1..MaxSockets : TransportDrop(s)

SpecReconnect == InitAnyBuild /\ [][NextReconnect]_vars

\* direct use of the controller's emit, with connection drops and disconnect()
NextEmit ==
    \/ \E ev \in {"typing", "send-message"}, cb \in BOOLEAN, th \in BOOLEAN : CtrlEmit(ev, cb, th)
    \/ \E s \in 1..MaxSockets : TransportDrop(s)
    \/ \E s \in 1..MaxSockets : TransportConnect(s)
    \/ CtrlDisconnect

SpecEmit == InitReady /\ [][NextEmit]_vars

\* an initialized facade that is used and then cleaned up
NextCleanup ==
    \/ \E r \in Rooms : JoinRoom(1, r)
    \/ \E ok \in BOOLEAN : Ack(1, ok)
    \/ GetMessagesStart(1, "r1", 1, DefaultLimit)
    \/ GetMessagesOk(1)
    \/ OnUserTyping("u2")
    \/ StartTyping(NoRoom)
    \/ StopTypingTimer
    \/ Tick
    \/ FacadeCleanup

SpecCleanup == InitReady /\ [][NextCleanup]_vars

\* the realtime server: handshakes, joins and disconnections
NextServer ==
    \/ \E c \in Conns, cr \in Credentials, down \in BOOLEAN : ServerHandshake(c, cr, down)
    \/ \E c \in Conns, u \in Users, r \in ServerRoomIds : ServerJoinRoom(c, u, r)
    \/ \E c \in Conns : ServerDisconnect(c)

SpecServer == Init /\ [][NextServer]_vars

\* the member lists of the Room documents
NextRooms ==
    \/ \E r \in Rooms, u \in Users : RoomAddMember(r, u)
    \/ \E r \in Rooms, u \in Users : RoomRemoveMember(r, u)

SpecRooms == Init /\ [][NextRooms]_vars

\* join requests of several connections on the Room documents
NextJoins ==
    \/ \E c \in Conns, r \in Rooms, u \in Users : JoinRead(c, r, u)
    \/ \E c \in Conns : JoinAddMember(c)
    \/ \E c \in Conns : JoinSave(c)

SpecJoins == Init /\ [][NextJoins]_vars

\* connections of active users that join rooms, send messages and disconnect
NextBroadcast ==
    \/ \E c \in Conns, u \in {"u1", "u3"} :
          ServerHandshake(c, [kind |-> "valid", id |-> u], FALSE)
    \/ \E c \in Conns, r \in Rooms : ServerJoinRoom(c, sessions[c].user, r)
    \/ \E c \in Conns, r \in Rooms : ServerSendMessage(c, r)
    \/ \E c \in Conns : ServerDisconnect(c)

SpecBroadcast == Init /\ [][NextBroadcast]_vars

\* the typing indicators of the other users, as time passes
NextPeers ==
    \/ \E u \in Users : OnUserTyping(u)
    \/ \E u \in Users : OnUserStoppedTyping(u)
    \/ Tick

SpecPeers == InitReady /\ [][NextPeers]_vars

\* a signed-in user with the chat service up: messages of other users arrive
\* and the user logs out
NextLogout ==
    \/ \E ok \in BOOLEAN : AuthLogout(ok)
    \/ \E r \in Rooms : OtherUserSends(r)
    \/ OnNewMessage
    \/ \E f \in 1..MaxFetches, r \in Rooms : GetMessagesStart(f, r, 1, DefaultLimit)
    \/ \E f \in 1..MaxFetches : GetMessagesOk(f)

SpecLogout == InitReady /\ [][NextLogout]_vars

\* listeners of the facade and of callers of SocketService.on, and disconnect()
NextListeners ==
    \/ \E c \in 1..MaxInits, tok \in Tokens : FacadeInitialize(c, tok)
    \/ \E c \in 1..MaxInits : FacadeInitResume(c)
    \/ \E s \in 1..MaxSockets : TransportConnect(s)
    \/ \E ev \in RegistryEvents : CtrlOn(ev)
    \/ \E ev \in RegistryEvents, i \in 1..MaxListeners : CtrlOff(ev, i)
    \/ CtrlDisconnect

SpecListeners == Init /\ [][NextListeners]_vars

\* every operation of the client
Next ==
    \/ NextConn
    \/ NextListeners
    \/ NextCleanup
    \/ NextServer
    \/ NextRooms
    \/ NextJoins
    \/ NextBroadcast
    \/ NextPeers
    \/ NextLogout
    \/ NextEmit
    \/ NextReconnect
    \/ NextCacheEvents
    \/ NextCalls
    \/ NextTyping

Spec == Init /\ [][Next]_vars

(***************************************************************************)
(* Claims                                                                  *)
(***************************************************************************)
NoDup(msgs) == \A i, j \in 1..Len(msgs) : i # j => msgs[i].id # msgs[j].id

\* C1: in every reachable state, the cached message sequence of each room never
\* contains the same message identifier twice.
C1_NoDuplicateIds == \A r \in DOMAIN messageCache : NoDup(messageCache[r])

\* C2: in every reachable state, the cache entry of each room holds at most 100
\* messages.
C2_CacheBounded == \A r \in DOMAIN messageCache : Len(messageCache[r]) <= CacheCap

LastN(s, n) == SubSeq(s, Len(s) - n + 1, Len(s))

\* C3: after N >= 1 handleNewMessage invocations for a room that has a cache entry
\* (and no other operation on it), the cache holds exactly the last
\* min(prior length + N, 100) of the prior entries followed by the arrivals, in
\* arrival order; a room without entry gets none, and every invocation is
\* republished to the local subscribers.
C3_NewMessageBurst ==
    /\ DOMAIN base = DOMAIN messageCache
    /\ \A r \in DOMAIN base :
          LET all == base[r] \o arrived[r]
          IN IF arrived[r] = << >> THEN messageCache[r] = base[r]
             ELSE messageCache[r] = LastN(all, Min(Len(all), CacheCap))
    /\ windowEvents["chat:new-message"] = handled

\* C3 witness: a cached room received new messages and its oldest entries were dropped
C3_Witness ==
    \E r \in DOMAIN base :
        /\ arrived[r] # << >>
        /\ Len(base[r]) + Len(arrived[r]) > CacheCap
        /\ Len(messageCache[r]) = CacheCap

\* C4: a successful getMessages(R, 1) sets the cache of R to exactly the fetched
\* page; with a page > 1 to the fetched page followed by the previous entries in
\* their order; the caller gets the raw fetch result; a failed fetch changes no cache.
C4_GetMessagesEffect ==
    [][lastFetch'.n # lastFetch.n =>
             LET f == lastFetch'.slot
                 R == fetches[f].room
                 prev == IF R \in DOMAIN messageCache THEN messageCache[R] ELSE << >>
             IN IF lastFetch'.status = "ok"
                THEN /\ lastFetch'.result = fetches[f].data
                     /\ DOMAIN messageCache' = DOMAIN messageCache \cup {R}
                     /\ messageCache'[R] = IF fetches[f].page = 1 THEN fetches[f].data
                                           ELSE fetches[f].data \o prev
                     /\ \A r \in DOMAIN messageCache \ {R} : messageCache'[r] = messageCache[r]
                ELSE messageCache' = messageCache]_vars

\* C4 witness: a later page was fetched into a room that already had entries
C4_Witness ==
    /\ lastFetch.status = "ok" /\ lastFetch.page > 1 /\ lastFetch.result # << >>
    /\ \E r \in DOMAIN messageCache :
          /\ Len(messageCache[r]) > Len(lastFetch.result)
          /\ SubSeq(messageCache[r], 1, Len(lastFetch.result)) = lastFetch.result

\* C5: a burst of startTyping(R) calls less than 3 seconds apart, made while the
\* connection is up, has emitted exactly one typing event to the server.
C5_OneTypingEventPerBurst ==
    typing.clean /\ typing.calls >= 1 => typing.typingEmits = 1

\* C6: with the connection up and R the current room, a burst of startTyping(R)
\* calls less than 3 seconds apart emits no stop-typing event while its timer is
\* armed, and exactly one when the timer has run out, 3 seconds after the last
\* call of the burst.
C6_OneStopTypingAfterSilence ==
    typing.clean /\ typing.calls >= 1 =>
        IF debounce.armed THEN typing.stops = 0
        ELSE typing.stops = 1 /\ typing.stopAt = typing.lastCallAt + DebounceWaitMs

\* C6 witness: a burst of several calls has ended with its one stop-typing event
C6_Witness ==
    /\ typing.clean /\ typing.calls >= 2 /\ ~debounce.armed
    /\ typing.stops = 1 /\ emitted["stop-typing"] = 1

\* C7: a sendMessage call without room argument made while no room is current is
\* rejected with a validation-classified error and hands no send-message event to
\* the connection controller.
C7_SendWithoutRoomIsValidationError ==
    \A c \in 1..MaxCalls :
        calls[c].op = "send-message" /\ calls[c].arg = NoRoom /\ calls[c].room = NoRoom =>
            /\ calls[c].status = "rejected"
            /\ calls[c].error = ErrorTypes.VALIDATION
            /\ calls[c].emits = 0

\* C8: every joinRoom, leaveRoom and sendMessage call that is pending eventually
\* is resolved or rejected, also when the connection drops before the
\* acknowledgement.
C8_CallsReachTerminalOutcome ==
    \A c \in 1..MaxCalls :
        (calls[c].status = "pending") ~> (calls[c].status \in {"resolved", "rejected"})

\* C9: an initialize call with a credential made while a connection attempt is in
\* flight returns the promise of that attempt and opens no transport; made while
\* connected with the same credential it returns the existing socket and leaves
\* it as it is; and there are never two live transports.
C9_SingleConnectionAttempt ==
    [][/\ lastInit'.n # lastInit.n /\ lastInit'.token # NoToken =>
            /\ connectionPromise # 0 /\ promises[connectionPromise] = "pending" =>
                  /\ lastInit'.kind = "inflight"
                  /\ lastInit'.promise = connectionPromise
                  /\ sockets' = sockets /\ promises' = promises /\ ctrlVars' = ctrlVars
            /\ Connected(socket) /\ token = lastInit'.token =>
                  /\ lastInit'.kind = "socket"
                  /\ lastInit'.socket = socket
                  /\ sockets' = sockets /\ promises' = promises /\ ctrlVars' = ctrlVars
       /\ Cardinality(LiveSockets) <= 1
       /\ Cardinality(LiveSockets') <= 1]_vars

\* C9 witness: an initialize call was answered with the attempt in flight, and
\* that attempt's transport is the only one alive
C9_Witness ==
    /\ lastInit.n >= 2 /\ lastInit.kind = "inflight"
    /\ lastInit.promise = connectionPromise /\ promises[lastInit.promise] = "pending"
    /\ LiveSockets = {socket}

\* C10: an initialize call of the facade made once it is initialized returns at
\* once; it changes no field of the facade or the controller, opens no transport
\* and installs no listener.
C10_InitializeIdempotent ==
    [][\A c \in 1..MaxInits :
          isInitialized /\ inits[c].status = "idle" /\ inits'[c].status # "idle" =>
              /\ inits'[c].status = "returned"
              /\ facadeVars' = facadeVars /\ ctrlVars' = ctrlVars
              /\ sockets' = sockets /\ promises' = promises
              /\ lastInit' = lastInit]_vars

\* C10 witness: an initialize call was made on an initialized facade that has its
\* listeners installed once
C10_Witness ==
    /\ isInitialized /\ socket # 0 /\ sockets[socket].listeners = 1
    /\ \E c \in 1..MaxInits : inits[c].status = "returned"

\* C11: the controller has shown 'Connection restored' once for every
\* reconnection episode (a lost connection that the transport got back), and
\* never for another connect.
C11_RestoredOncePerEpisode == toasts.restored = toasts.episodes

\* C12: whenever a transport has used up its reconnection attempts, the
\* 'Connection failed' notification was shown for it, and the controller is
\* neither connecting nor connected.
C12_ExhaustionNotified ==
    /\ toasts.failed = toasts.exhausted
    /\ \A s \in 1..MaxSockets :
          sockets[s].status = "failed" /\ s = socket => ~isConnecting /\ ~Connected(socket)

\* C13: the step in which a connection attempt fails leaves the controller not
\* connecting and not connected, rejects the pending initialize with a
\* network-classified error and opens no transport; an initialize call made
\* afterwards, while not connected, starts a new attempt with a new promise.
C13_FailedAttempt ==
    [][/\ \A p \in 1..MaxSockets :
             promises[p] = "pending" /\ promises'[p] = "rejected" =>
                 /\ ~isConnecting'
                 /\ socket' # 0 /\ sockets'[socket'].status # "connected"
                 /\ FreshSockets' = FreshSockets
                 /\ classifyError(ConnectErrorReason, onLine) = ErrorTypes.NETWORK
       /\ /\ lastInit'.n # lastInit.n /\ lastInit'.token # NoToken
          /\ connectionPromise # 0 /\ promises[connectionPromise] = "rejected"
          /\ ~Connected(socket)
          => /\ lastInit'.kind = "new"
             /\ lastInit'.promise # connectionPromise
             /\ promises'[lastInit'.promise] = "pending"
             /\ promises'[connectionPromise] = "rejected"]_vars

\* C13 witness: after a failed attempt a further initialize call has started a
\* new one
C13_Witness ==
    /\ lastInit.n >= 2 /\ lastInit.kind = "new" /\ promises[lastInit.promise] = "pending"
    /\ \E p \in 1..MaxSockets : p # lastInit.promise /\ promises[p] = "rejected"

\* C14: a call of the controller's emit never throws; made while not connected
\* it hands nothing to the transport, returns false and calls the callback, if
\* there is one, exactly once with a network-classified error; made while
\* connected, and the transport taking the event, it hands the event to the
\* transport once, with the callback if there is one, and returns true.
C14_EmitOutcome ==
    [][lastEmit'.n # lastEmit.n =>
          LET forwardedNow == \A e \in EventNames : emitted'[e] = emitted[e]
              sent == {e \in EventNames : emitted'[e] = emitted[e] + 1}
          IN /\ ~lastEmit'.thrown
             /\ ~Connected(socket) =>
                   /\ ~lastEmit'.returned /\ forwardedNow
                   /\ lastEmit'.callbackCalls = IF lastEmit'.callback THEN 1 ELSE 0
                   /\ lastEmit'.callback => lastEmit'.callbackError = ErrorTypes.NETWORK
             /\ Connected(socket) /\ ~lastEmit'.transportThrew =>
                   /\ lastEmit'.returned /\ Cardinality(sent) = 1
                   /\ lastEmit'.forwarded = 1
                   /\ lastEmit'.withCallback = lastEmit'.callback
                   /\ lastEmit'.callbackCalls = 0]_vars

\* C14 witness: emit was called with a callback while the connection was down
C14_Witness ==
    /\ lastEmit.n >= 1 /\ ~lastEmit.connected /\ lastEmit.callback
    /\ lastEmit.callbackCalls = 1 /\ ~lastEmit.returned

\* the listeners of the registry that are attached to transport s
TrackedOn(s) ==
    Cardinality({<<e, i>> \in RegistryEvents \X (1..MaxListeners) :
                    i <= Len(eventListeners[e]) /\ eventListeners[e][i] = s})

\* C15: every listener attached to a transport of the controller, the handlers
\* of the facade included, is in the registry under its event name; and after
\* disconnect() the registry is empty, socket, credential, in-flight promise and
\* attempt counter are reset and no transport has a listener left.
C15_ListenersTracked ==
    /\ \A s \in 1..MaxSockets :
          sockets[s].status # "closed" =>
              sockets[s].listeners + sockets[s].tracked = TrackedOn(s)
    /\ socket = 0 =>
          /\ \A e \in RegistryEvents : eventListeners[e] = << >>
          /\ token = NoToken /\ connectionPromise = 0 /\ reconnectAttempts = 0
          /\ ~isConnecting
          /\ \A s \in 1..MaxSockets : sockets[s].listeners + sockets[s].tracked = 0

ClassifiedTypes == {ErrorTypes[k] : k \in DOMAIN ErrorTypes}

\* call c of kind op reaches the outcome st in this step
Finishes(c, op, st) ==
    /\ calls[c].status \in {"idle", "pending"}
    /\ calls'[c].op = op /\ calls'[c].status = st

FacadeCleared ==
    /\ currentRoom = NoRoom /\ typingUsers = {} /\ messageCache = << >>
    /\ ~isInitialized /\ ~debounce.armed

\* C17: cleanup() clears the current room, the typing set and the whole message
\* cache, cancels the pending typing debounce and marks the facade
\* uninitialized; a cleanup made in the state a cleanup left changes no field of
\* the facade; and a stop-typing event is only emitted for a burst that was
\* started after the last cleanup.
C17_CleanupClears ==
    [][ /\ cleanups'.n # cleanups.n =>
              /\ FacadeCleared'
              /\ FacadeCleared => facadeVars' = facadeVars
        /\ emitted'["stop-typing"] # emitted["stop-typing"] => cleanups.typedSince
      ]_vars

\* a second cleanup has run, the first having cleared a joined room, typing
\* users, cached messages and a pending debounce
C17_Witness ==
    /\ cleanups.n = 2 /\ FacadeCleared
    /\ \E c \in 1..MaxCalls : calls[c].op = "join-room" /\ calls[c].status = "resolved"
    /\ lastFetch.status = "ok" /\ lastFetch.result # << >>
    /\ typing.calls > 0 /\ typing.stops = 0

Verifies(cr) == cr.kind = "valid"

\* C18: the handshake binds an identity to the connection only when the
\* credential is present, verifies, names an existing user and that user is
\* active; when the credential is absent, invalid or expired, or the user is
\* not found or inactive, the connection is refused with an authentication
\* error and no identity is attached to it.
C18_HandshakeBindsVerifiedIdentity ==
    \A c \in Conns :
        LET ss == sessions[c]
            cr == ss.credential
        IN ss.status # "none" =>
             /\ ss.status = "accepted" =>
                  /\ cr.kind # "none" /\ Verifies(cr)
                  /\ cr.id \in DOMAIN Accounts /\ Accounts[cr.id].isActive
                  /\ ss.user = cr.id
             /\ \/ cr.kind = "none"
                \/ ~Verifies(cr)
                \/ cr.id \notin DOMAIN Accounts
                \/ ~Accounts[cr.id].isActive
                => /\ ss.status = "refused" /\ ss.user = NoUser
                   /\ ss.error.kind = "Authentication error"

\* one connection was accepted for an active user and another refused for a
\* deactivated one
C18_Witness ==
    \E c, e \in Conns :
        /\ sessions[c].status = "accepted" /\ sessions[c].user = "u1"
        /\ sessions[e].status = "refused"
        /\ sessions[e].credential = [kind |-> "valid", id |-> "u4"]
        /\ ~sessions[e].dbDown

\* the identity may be added to the room: it is a member, or a place is free
Eligible(room, userId) ==
    IsMember(room.members, userId) \/ Len(room.members) < room.maxMembers

\* C19: a connection is a recipient of a room's events only if Join Room has
\* verified, for the verified identity of the connection, that the room exists
\* and that the identity is eligible for membership.
C19_RecipientsPassedJoinCheck ==
    \A r \in ServerRoomIds : \A c \in ioRooms[r] :
        /\ sessions[c].status = "accepted"
        /\ r \in DOMAIN roomDocs
        /\ Eligible(roomDocs[r], sessions[c].user)

AtCapacity(r) == Len(lastAdd.before) >= roomDocs[r].maxMembers

\* C20: for a room whose member list has reached settings.maxMembers, adding
\* an identity that is not a member is rejected with an error and leaves the
\* member list unchanged, and adding an identity that is already a member
\* succeeds and leaves the member list unchanged, without a duplicate entry.
C20_CapacityEnforced ==
    lastAdd.outcome # "" /\ AtCapacity(lastAdd.room) =>
        LET now_ == roomDocs[lastAdd.room].members
        IN /\ now_ = lastAdd.before
           /\ \A i, j \in 1..Len(now_) : now_[i] = now_[j] => i = j
           /\ IsMember(lastAdd.before, lastAdd.user) => lastAdd.outcome = "resolved"
           /\ ~IsMember(lastAdd.before, lastAdd.user) => lastAdd.outcome = "error"

\* a non-member was refused by a full room that had been filled by addMember
C20_Witness ==
    /\ lastAdd.outcome = "error" /\ lastAdd.room = "r1"
    /\ Len(roomDocs["r1"].members) = roomDocs["r1"].maxMembers
    /\ ~IsMember(roomDocs["r1"].members, lastAdd.user)

\* C21: under any interleaving of join requests of different connections,
\* each reading the room record, testing membership and capacity, pushing the
\* member and saving, the stored member list of a room never exceeds its
\* maximum and never holds the same identity twice.
C21_MembersWithinLimitNoDuplicate ==
    \A r \in Rooms :
        /\ Len(roomDocs[r].members) <= roomDocs[r].maxMembers
        /\ \A i, j \in 1..Len(roomDocs[r].members) :
              roomDocs[r].members[i] = roomDocs[r].members[j] => i = j

\* the entries of the identity in a member list
Entries(members, userId) == Cardinality({i \in 1..Len(members) : members[i] = userId})

\* the times connection c was sent the broadcast with this id
Deliveries(c, id) == Cardinality({i \in 1..Len(outbox[c]) : outbox[c][i].id = id})

\* C22: whatever join and leave requests a connection made, it is registered
\* for a room at most once; once it has joined room R (twice or more
\* included) its identity has exactly one entry in R's member list, and a
\* message published to R is delivered to it at most once.
C22_JoinedExactlyOnce ==
    \A c \in Conns :
        /\ \A r \in Rooms :
              c \in ioRooms[r] => Entries(roomDocs[r].members, sessions[c].user) = 1
        /\ \A i \in 1..Len(published) : Deliveries(c, published[i].id) <= 1

C24_BroadcastToOthersInOrder ==
    [][ /\ Len(published') = Len(published) + 1 =>
              LET p == published'[Len(published')]
              IN \A c \in Conns :
                    outbox'[c] = IF c \in ioRooms[p.room] /\ c # p.from
                                 THEN Append(outbox[c], [id |-> p.id, room |-> p.room])
                                 ELSE outbox[c]
        /\ \A c \in Conns : \A i, j \in 1..Len(outbox'[c]) :
              i < j => outbox'[c][i].id < outbox'[c][j].id
      ]_vars

\* c1 and c2 are both registered for r1; c1 sent two messages to it, c2 got
\* both in order and c1 none
C24_Witness ==
    /\ {"c1", "c2"} \subseteq ioRooms["r1"]
    /\ Len(published) = 2
    /\ \A i \in 1..2 : published[i].from = "c1" /\ published[i].room = "r1"
    /\ Len(outbox["c2"]) = 2 /\ outbox["c2"][1].id = 1 /\ outbox["c2"][2].id = 2
    /\ outbox["c1"] = << >>

\* C25: an identity that a user-typing event put in the typing set leaves it
\* by a user-stopped-typing event or, without one, once 3 seconds have passed
\* since its last user-typing event: no identity is in the set longer.
C25_TypingEntriesExpire ==
    \A u \in typingUsers : now - typingSince[u] <= DebounceWaitMs

\* the entries of the cache of room r that carry this message id
Cached(cache, r, id) ==
    IF r \in DOMAIN cache
    THEN Cardinality({i \in 1..Len(cache[r]) : cache[r][i].id = id})
    ELSE 0

\* C26: a new-message event for room R that is delivered while a
\* getMessages(R, 1) call awaits its response is in the cache of R, exactly
\* once, when the fetch has completed, whether the fetched page held it or
\* not, the first fetch of R included.
C26_LiveMessageSurvivesFetch ==
    [][lastFetch'.n # lastFetch.n /\ lastFetch'.status = "ok"
          /\ fetches[lastFetch'.slot].page = 1 =>
             LET q == fetches[lastFetch'.slot]
             IN \A i \in 1..Len(q.live) : Cached(messageCache', q.room, q.live[i]) = 1
      ]_vars

\* C27: the facade has at most one handler installed per inbound event on the
\* live socket, so that an inbound new-message is appended to the cache and
\* republished once; also after two initialize calls made before the first
\* completed, and after initialize, cleanup, initialize with one credential.
C27_OneHandlerPerEvent ==
    \A s \in LiveSockets : sockets[s].listeners <= 1

\* C28: when the typing debounce runs out with the connection up, a
\* stop-typing event is emitted, and it names the room of the startTyping call
\* that armed the timer: also when that call named a room other than the
\* current room, when no room is current, and when the current room changed
\* within the 3 seconds.
C28_StopTypingTargetsArmedRoom ==
    [][debounce.armed /\ DebounceDue(debounce, now) /\ ~debounce'.armed
          /\ cleanups'.n = cleanups.n /\ CanEmit =>
             /\ emitted'["stop-typing"] = emitted["stop-typing"] + 1
             /\ typing'.stopRoom = typing.armedFor
      ]_vars

\* C29: whenever the promise a controller initialize(t) call returned is
\* resolved, or the call returned the existing socket, the connection it gets
\* was opened with credential t and the controller's stored credential is t;
\* also when the call was made while an attempt with another credential was
\* in flight.
C29_ResolvedWithOwnCredential ==
    [][ /\ lastInit'.n # lastInit.n /\ lastInit'.kind = "socket" =>
              token' = lastInit'.token /\ sockets'[lastInit'.socket].auth = lastInit'.token
        /\ lastInit.promise # 0 /\ lastInit' = lastInit
              /\ promises[lastInit.promise] = "pending"
              /\ promises'[lastInit.promise] = "resolved" =>
              token' = lastInit.token /\ sockets'[lastInit.promise].auth = lastInit.token
      ]_vars

\* C30: once logout has completed no live connection bound to the identity
\* that logged out remains: the controller's socket is disconnected and its
\* credential cleared, so that no event reaches the client any more.
C30_NoConnectionAfterLogout ==
    authUser = NoUser => LiveSockets = {} /\ token = NoToken /\ inbound = << >>

====
